---- MODULE Spec2Model ----
(***************************************************************************)
(* Email-to-task ingestion pipeline of rob-crm-ai-tasks: dedup ledger,     *)
(* client/task matcher, reminder scheduler and delay/reschedule handlers.  *)
(*                                                                         *)
(* Two deployments share the model: "cloud" (cloud_email_processor.py,     *)
(* task_manager.py, enhanced_task_manager.py, app.py) and "saas"           *)
(* (saas_email_processor.py, dashboard.py).                                *)
(*                                                                         *)
(* Representation:                                                         *)
(*   - a calendar date is a day number, a time of day is <<h, m, s>>, an   *)
(*     instant is a number of seconds since 00:00:00 of day 0, all in the  *)
(*     owning user's timezone (Australia/Brisbane, which has no DST);      *)
(*   - a string is a sequence of one-character strings; None and ''        *)
(*     (both falsy in the code) are the empty sequence;                    *)
(*   - the tasks table is a sequence ordered by created_at, a task's id    *)
(*     is its index.                                                       *)
(***************************************************************************)
EXTENDS Integers, Sequences, FiniteSets, TLC

VARIABLES
    deployment,     \* "cloud" or "saas": which processor and web app run
    now,            \* wall clock, seconds since 00:00:00 of day 0
    tasks,          \* the tasks table
    notes,          \* the task_notes table (append-only)
    last_reminder_check, \* the scheduler loop's timestamp of its last reminder pass
    reminders,      \* history: per task, the day of the last reminder and how many
                    \*          went out on that day since its due_date/due_time was
                    \*          last written (2 stands for two or more)
    mailbox,        \* the IMAP inbox: messages in arrival order, each with its \Seen flag
    processed_db,   \* the processed_emails table: the set of email_id keys
    processed_emails, \* CloudEmailProcessor.processed_emails, the in-memory copy
    queue,          \* the messages the running ingestion pass has still to handle
    handled,        \* history: per message, how often it produced a Task or Note
                    \*          (2 stands for two or more)
    marked,         \* history: the keys mark_email_processed has returned for, each
                    \*          with the message it was called for and whether the
                    \*          key was in the table when it returned
    polls,          \* history: number of ingestion passes started
    restarts,       \* history: number of process restarts
    nstatuses,      \* number of project_statuses rows (ids 1..nstatuses, in display_order)
    ingest,         \* history: the last process_single_email call, its inputs, the
                    \*          tables it started from and the task it matched
    last,           \* history: the last handler that ran, its inputs and the row it read
    nops,           \* history: number of web-handler operations so far
    running,        \* the scheduler loop (start / run_email_processor) is still looping
    loop            \* the scheduler loop: its position, the passes in flight, its
                    \*          last_email_check and the rows the reminder pass in
                    \*          flight has read

ledgerVars == <<mailbox, processed_db, processed_emails, queue, handled, marked, polls, restarts,
                running, loop>>

\* ------------------------------------------------------------------
\* Bounds
\* ------------------------------------------------------------------
MaxOps == 1          \* web-handler operations per behaviour
MaxDelayHours == 2   \* largest hours argument of a delay
MaxDelayDays == 1    \* largest days argument of a delay
MaxStatuses == 3     \* rows of the project_statuses table
MaxRows == 2         \* rows of the tasks table the matcher is run against
MaxMail == 21        \* messages in the inbox of the deferral specification
MaxPolls == 2        \* ingestion passes per behaviour
MaxRestarts == 1     \* process restarts per behaviour
MaxTicks == 40       \* scheduler loop iterations per behaviour

\* ------------------------------------------------------------------
\* Time
\* ------------------------------------------------------------------
DaySecs == 86400
HourSecs == 3600
MinSecs == 60

NoTime == -1         \* a null timestamp / null date column
NoDueTime == <<>>    \* a null due_time column
NoStr == <<>>        \* a null or empty text column

\* time of day <<h, m, s>> -> seconds since midnight
SecOfDay(t) == t[1] * HourSecs + t[2] * MinSecs + t[3]

\* strftime('%H:%M:%S') of an instant
StrfHMS(inst) ==
    LET sod == inst % DaySecs
    IN  <<sod \div HourSecs, (sod % HourSecs) \div MinSecs, sod % MinSecs>>

\* .date() of an instant
DateOf(inst) == inst \div DaySecs

\* the instant of a calendar date and a time of day
Instant(d, t) == d * DaySecs + SecOfDay(t)

ValidTime(t) ==
    /\ Len(t) = 3
    /\ t[1] \in 0..23
    /\ t[2] \in 0..59
    /\ t[3] \in 0..59

\* ------------------------------------------------------------------
\* Task rows
\* ------------------------------------------------------------------
NewTask(dd, dt) ==
    [ status            |-> "pending",
      completed_at      |-> NoTime,
      due_date          |-> dd,
      due_time          |-> dt,
      reminder_sent_at  |-> NoTime,
      client_email      |-> NoStr,
      client_name       |-> NoStr,
      project_name      |-> NoStr,
      title             |-> NoStr,
      project_status_id |-> 0 ]

SystemNote(id) == [task_id |-> id, source |-> "system"]

\* ------------------------------------------------------------------
\* Strings
\* ------------------------------------------------------------------
\* str.lower() of one character, over the letters the model uses
LowerChar(c) ==
    CASE c = "J" -> "j"
      [] c = "O" -> "o"
      [] c = "E" -> "e"
      [] c = "S" -> "s"
      [] c = "Q" -> "q"
      [] OTHER   -> c

\* str.lower()
Lower(str) == [i \in 1..Len(str) |-> LowerChar(str[i])]

\* a in b (Python substring test)
IsSubstr(a, b) ==
    \E i \in 0..(Len(b) - Len(a)) : SubSeq(b, i + 1, i + Len(a)) = a

\* column ILIKE '%pat%': case-insensitive substring, never true of a null column
ILike(col, pat) == col # NoStr /\ IsSubstr(Lower(pat), Lower(col))

\* ------------------------------------------------------------------
\* Client / task matcher
\* ------------------------------------------------------------------
Open(ts) == {i \in DOMAIN ts : ts[i].status # "completed"}

\* .order('created_at', desc=True).limit(1): the newest row of a result
\* set, 0 when it is empty
Newest(S) == IF S = {} THEN 0 ELSE CHOOSE i \in S : \A j \in S : j <= i

\* TaskManager.find_existing_task_by_client, first query: client_email equal
\* to the lower-cased candidate address, embedded project_statuses!inner so
\* only rows that have a project status are returned
ByEmail(ts, client_email) ==
    Newest({i \in Open(ts) : /\ ts[i].client_email = Lower(client_email)
                             /\ ts[i].project_status_id # 0})

\* second query: project_name ILIKE %project_name%
ByProject(ts, project_name) ==
    Newest({i \in Open(ts) : ILike(ts[i].project_name, project_name)})

\* third query: client_name ILIKE %client_name%
ByName(ts, client_name) ==
    Newest({i \in Open(ts) : ILike(ts[i].client_name, client_name)})

NoMatch == [id |-> 0, via |-> "none"]

\* TaskManager.find_existing_task_by_client
find_existing_task_by_client(ts, client_email, client_name, project_name) ==
    IF client_email # NoStr /\ ByEmail(ts, client_email) # 0
    THEN [id |-> ByEmail(ts, client_email), via |-> "email"]
    ELSE IF project_name # NoStr /\ ByProject(ts, project_name) # 0
    THEN [id |-> ByProject(ts, project_name), via |-> "project"]
    ELSE IF client_name # NoStr /\ Len(client_name) > 2 /\ ByName(ts, client_name) # 0
    THEN [id |-> ByName(ts, client_name), via |-> "name"]
    ELSE NoMatch

\* the keyword query of find_matching_task: newest open row whose title or
\* project_name contains the keyword
ByKeyword(ts, keyword) ==
    Newest({i \in Open(ts) : ILike(ts[i].title, keyword) \/ ILike(ts[i].project_name, keyword)})

\* the keyword loop with no identity check: a keyword hit alone suffices
SameClient_mut(t, client_email, client_name) == TRUE

\* "Verify it's the same client": by address when both sides have one,
\* otherwise by name when both sides have one
SameClient(t, client_email, client_name) ==
    IF client_email # NoStr /\ t.client_email # NoStr
    THEN Lower(t.client_email) = Lower(client_email)
    ELSE IF client_name # NoStr /\ t.client_name # NoStr
    THEN IsSubstr(Lower(client_name), Lower(t.client_name))
    ELSE FALSE

\* the keyword loop of find_matching_task: the first keyword, in list order,
\* whose newest hit is the same client
RECURSIVE KeywordStrategy(_, _, _, _)
KeywordStrategy(ts, keywords, client_email, client_name) ==
    IF keywords = <<>> THEN NoMatch
    ELSE LET hit == ByKeyword(ts, Head(keywords))
         IN  IF hit # 0 /\ SameClient(ts[hit], client_email, client_name)
             THEN [id |-> hit, via |-> "keyword"]
             ELSE KeywordStrategy(ts, Tail(keywords), client_email, client_name)

\* CloudEmailProcessor.find_matching_task
find_matching_task(ts, ex) ==
    LET existing == find_existing_task_by_client(ts, ex.client_email, ex.client_name,
                                                 ex.project_name)
    IN  IF existing.id # 0 THEN existing
        ELSE KeywordStrategy(ts, ex.project_keywords, ex.client_email, ex.client_name)

\* TaskManager.update_task_client_info(task_id, client_email=, client_name=):
\* every argument that is truthy is written
update_task_client_info(t, client_name, client_email) ==
    [t EXCEPT !.client_name  = IF client_name # NoStr THEN client_name ELSE @,
              !.client_email = IF client_email # NoStr THEN Lower(client_email) ELSE @]

EmailNote(id) == [task_id |-> id, source |-> "email"]

\* ------------------------------------------------------------------
\* process_single_email
\* ------------------------------------------------------------------
TzOffsetSecs == 36000   \* the server clock is UTC, Australia/Brisbane is UTC+10

\* date.today() on the server
ServerToday(clock) == DateOf(clock - TzOffsetSecs)

\* datetime.weekday(), 0 = Monday; day 0 is a Monday
Weekday(d) == d % 7

\* "Skip weekends": the first day after d that is not Saturday or Sunday
RECURSIVE SkipWeekend(_)
SkipWeekend(d) == IF Weekday(d) >= 5 THEN SkipWeekend(d + 1) ELSE d

\* process_single_email, "Build task data": due_date and due_time of a new task
BuildDue(ex, clock) ==
    LET due_date == IF ex.due_date # NoTime THEN ex.due_date ELSE ServerToday(clock)
    IN  IF ex.due_time # NoDueTime
        THEN <<due_date, ex.due_time>>
        ELSE IF (clock % DaySecs) \div HourSecs < 9
        THEN <<due_date, <<9, 0, 0>>>>
        ELSE <<SkipWeekend(DateOf(clock + DaySecs)), <<9, 0, 0>>>>

\* TaskManager.statuses_available
statuses_available(n) == n > 0

\* TaskManager.get_default_status_id: the status with display_order 1
get_default_status_id(n) == IF n > 0 THEN 1 ELSE 0

\* TaskManager.create_task followed by the update_task_status of
\* process_single_email: the row inserted for a candidate.  suggested is the
\* id get_status_by_name found for the oracle's suggested_status, 0 if none.
create_task(ex, due, n) ==
    [ NewTask(due[1], IF due[2] # NoDueTime THEN due[2] ELSE <<8, 0, 0>>) EXCEPT
        !.title             = ex.task_title,
        !.client_name       = ex.client_name,
        !.client_email      = Lower(ex.client_email),
        !.project_name      = ex.project_name,
        !.project_status_id = IF ~statuses_available(n) THEN 0
                              ELSE IF ex.suggested \in 1..n THEN ex.suggested
                              ELSE get_default_status_id(n) ]

\* an oracle answer with is_task false
NotATask == [is_task |-> FALSE, client_email |-> NoStr, client_name |-> NoStr,
             project_name |-> NoStr, project_keywords |-> <<>>, task_title |-> <<"q">>,
             due_date |-> NoTime, due_time |-> NoDueTime, has_note |-> TRUE, suggested |-> 0]

\* the history record of a state in which no handler has run yet
NoOp == [op |-> "init", id |-> 0, pre_date |-> NoTime, pre_time |-> NoDueTime,
         hours |-> 0, days |-> 0, sent |-> {}, ok |-> TRUE, pre_status |-> 0,
         report |-> "", wrote |-> FALSE, pending |-> {}, failures |-> 0]

\* the scheduler loop before its first iteration, no pass in flight
Idle == [pc |-> "top", ingestion |-> 0, reminder |-> 0, last_email_check |-> NoTime,
         snapshot |-> <<>>]

\* the ledger key of no message
NoKey == [kind |-> "none", id |-> 0]

\* the keys mark_email_processed has returned for
MarkedKeys == {m.key : m \in marked}

NoIngest == [op |-> "none", sender |-> NoStr, ex |-> NotATask, matched |-> NoMatch,
             created |-> 0, pre_tasks |-> <<>>, pre_notes |-> <<>>, oracleOk |-> TRUE,
             subject |-> NoStr, key |-> NoKey,
             pre_marked |-> {}, mid |-> 0]

\* CloudEmailProcessor.process_single_email on tables ts (tasks) and ns
\* (task_notes): the tables it leaves, the task it matched, the task it created
process_single_email(ts, ns, n, sender, system, ex, clock) ==
    IF system \/ ~ex.is_task
    THEN [tasks |-> ts, notes |-> ns, matched |-> NoMatch, created |-> 0,
          op |-> "skipped"]
    ELSE LET existing == find_matching_task(ts, ex)
         IN  IF existing.id # 0
             THEN [tasks   |-> IF ts[existing.id].client_email = NoStr /\ sender # NoStr
                               THEN [ts EXCEPT ![existing.id] =
                                        update_task_client_info(@, ex.client_name, sender)]
                               ELSE ts,
                   notes   |-> Append(ns, EmailNote(existing.id)),
                   matched |-> existing, created |-> 0, op |-> "appended"]
             ELSE [tasks   |-> Append(ts, create_task(ex, BuildDue(ex, clock), n)),
                   notes   |-> IF ex.has_note THEN Append(ns, EmailNote(Len(ts) + 1)) ELSE ns,
                   matched |-> NoMatch, created |-> Len(ts) + 1, op |-> "created"]

\* ------------------------------------------------------------------
\* Dedup ledger and ingestion passes
\* ------------------------------------------------------------------
CloudBatchCap == 10     \* email_ids[-10:]
SaasBatchCap == 20      \* email_ids[:20]

\* the messages of the inbox, by message identity: sender address and
\* display name, subject, whether is_system_email holds, whether a Message-ID
\* header is present, and the answer the oracle gives for it when it answers
Mail ==
    << [sender |-> <<"j", "@">>, sender_name |-> <<"J", "o", "e">>,
        subject |-> <<"R", "e">>, system |-> FALSE, has_msgid |-> TRUE,
        ex |-> [is_task |-> TRUE, client_email |-> <<"j", "@">>,
                client_name |-> <<"J", "o", "e">>, project_name |-> NoStr,
                project_keywords |-> <<>>, task_title |-> <<"q">>, due_date |-> NoTime,
                due_time |-> NoDueTime, has_note |-> TRUE, suggested |-> 0]],
       [sender |-> <<"k", "@">>, sender_name |-> NoStr,
        subject |-> <<"H", "i">>, system |-> FALSE, has_msgid |-> FALSE,
        ex |-> [is_task |-> TRUE, client_email |-> <<"k", "@">>,
                client_name |-> <<"a", "n", "n">>, project_name |-> NoStr,
                project_keywords |-> <<>>, task_title |-> <<"s">>, due_date |-> NoTime,
                due_time |-> NoDueTime, has_note |-> TRUE, suggested |-> 0]] >>

\* sender_email.split('@')[0]
LocalPart(addr) ==
    LET at == {i \in DOMAIN addr : addr[i] = "@"}
    IN  IF at = {} THEN addr
        ELSE SubSeq(addr, 1, (CHOOSE i \in at : \A j \in at : i <= j) - 1)

\* CloudEmailProcessor.extract_client_and_task_info for message m: the
\* oracle's answer, or the "minimal default" when the call raises or its
\* output is not JSON (no due date, no due time, no keywords; the suggested
\* status is the default one)
extract_client_and_task_info(m, oracleOk) ==
    IF oracleOk THEN m.ex
    ELSE [is_task |-> TRUE,
          client_name |-> IF m.sender_name # NoStr THEN m.sender_name
                          ELSE LocalPart(m.sender),
          client_email |-> m.sender, project_name |-> NoStr, project_keywords |-> <<>>,
          task_title |-> m.subject, due_date |-> NoTime, due_time |-> NoDueTime,
          has_note |-> TRUE, suggested |-> 0]

\* analyze_email_with_ai for message m: the oracle's answer, or
\* {"is_task": False, "reason": "AI analysis failed"}
analyze_email_with_ai(m, oracleOk) == IF oracleOk THEN m.ex ELSE NotATask

\* the state of the ledger variables where no inbox is modelled
NoLedger ==
    /\ mailbox = <<>>
    /\ processed_db = {}
    /\ processed_emails = {}
    /\ queue = <<>>
    /\ handled = <<>>
    /\ marked = {}
    /\ polls = 0
    /\ restarts = 0

\* the content of message x: inboxes larger than Mail repeat its messages
MailOf(x) == Mail[((x - 1) % Len(Mail)) + 1]

\* process_emails: message_id = email_body.get('Message-ID', msg_id_str)
CloudKey(x) == IF MailOf(x).has_msgid THEN [kind |-> "Message-ID", id |-> x]
               ELSE [kind |-> "uid", id |-> x]

\* process_central_inbox: f"{user_id}_{email_id}" with email_id the message's
\* sequence number in the search result
SaasKey(seq) == [kind |-> "user_seq", id |-> seq]

Reverse(sq) == [i \in 1..Len(sq) |-> sq[Len(sq) + 1 - i]]

\* s[-n:]
LastN(sq, n) == IF Len(sq) <= n THEN sq ELSE SubSeq(sq, Len(sq) - n + 1, Len(sq))

\* s[:n]
FirstN(sq, n) == IF Len(sq) <= n THEN sq ELSE SubSeq(sq, 1, n)

\* the subsequence of positions 1..n that satisfy keep, in order
RECURSIVE Positions(_, _)
Positions(n, keep) ==
    IF n = 0 THEN <<>>
    ELSE IF keep[n] THEN Append(Positions(n - 1, keep), n)
    ELSE Positions(n - 1, keep)

Count(h) == IF h >= 2 THEN 2 ELSE h + 1

\* mark_email_processed (both processors): the insert, whose failure --
\* duplicate key or anything else -- is swallowed
InsertKey(db, key, insertOk) == IF insertOk /\ key \notin db THEN db \cup {key} ELSE db

\* CloudEmailProcessor.mark_email_processed: processed_emails.add runs only
\* after a successful insert
CloudRemember(mem, db, key, insertOk) ==
    IF insertOk /\ key \notin db THEN mem \cup {key} ELSE mem

\* CloudEmailProcessor.load_processed_emails: the table, or set() on error
load_processed_emails(db, loadOk) == IF loadOk THEN db ELSE {}

\* what a failing IMAP call raises: imaplib.IMAP4.error (login refused,
\* protocol violation; IMAP4.abort is a subclass) or OSError (connection
\* refused, reset, DNS, TLS)
ExceptionClasses == {"IMAP4.error", "OSError"}

\* the outcomes of the connect / login / select / search calls of a pass
PollOutcomes == {"ok"} \cup ExceptionClasses

\* `except Exception as e:` around the body of process_emails, in
\* connect_to_jottask_inbox, around the body of process_central_inbox and in
\* the loop of run_email_processor: every exception class a mailbox call
\* raises derives from Exception
CaughtByExcept_mut(e) == e = "IMAP4.error"
CaughtByExcept(e) == e \in ExceptionClasses

\* the ingestion passes
PassOps == {"process_emails", "process_central_inbox"}

\* the history record of a pass that starts: its outcome, the messages it
\* queued, the number of passes a mailbox failure has ended so far
PassStarted(op, outcome, q) ==
    [NoOp EXCEPT !.op = op, !.ok = (outcome = "ok"), !.report = outcome,
                 !.pending = {q[i] : i \in 1..Len(q)},
                 !.failures = IF outcome = "ok" THEN last.failures
                              ELSE IF last.failures < MaxPolls THEN last.failures + 1
                              ELSE last.failures]

\* CloudEmailProcessor.process_emails up to the loop, called from the loop
\* of start: connect, search the last 7 days by UID, count the new ones,
\* queue the newest 10 newest-first; n is the pass counter afterwards
CloudPoll(outcome, n) ==
    /\ deployment = "cloud"
    /\ running
    /\ queue = <<>>
    /\ LET email_ids == [i \in 1..Len(mailbox) |-> mailbox[i].mid]
           new_count == Cardinality({i \in 1..Len(email_ids) :
                            [kind |-> "uid", id |-> email_ids[i]] \notin processed_emails})
           q == IF outcome = "ok" /\ new_count # 0
                THEN Reverse(LastN(email_ids, CloudBatchCap))
                ELSE <<>>
       IN  /\ queue' = q
           /\ last' = PassStarted("process_emails", outcome, q)
    /\ running' = (outcome = "ok" \/ CaughtByExcept(outcome))
    /\ polls' = n
    /\ UNCHANGED <<deployment, now, tasks, notes, last_reminder_check, reminders, mailbox,
                   processed_db, processed_emails, handled, marked, restarts, nstatuses,
                   ingest, nops, loop>>

CloudPollStart ==
    /\ polls < MaxPolls
    /\ \E outcome \in PollOutcomes : CloudPoll(outcome, polls + 1)

\* a pass that starts with the mailbox reachable
CloudPollReachable == CloudPoll("ok", (polls % MaxPolls) + 1)

\* one iteration of the loop of process_emails: fetch (status not OK:
\* continue), skip if already processed, process_single_email (which
\* swallows whatever extraction, matching or persistence raises),
\* mark_email_processed
CloudHandle(fetchOk, oracleOk, handleOk, insertOk) ==
    /\ deployment = "cloud"
    /\ running
    /\ queue # <<>>
    /\ LET x   == Head(queue)
           key == CloudKey(x)
           ex  == extract_client_and_task_info(MailOf(x), oracleOk)
           r   == process_single_email(tasks, notes, nstatuses, MailOf(x).sender,
                                       MailOf(x).system, ex, now)
       IN  /\ last' = [last EXCEPT !.pending = @ \ {x}]
           /\ IF ~fetchOk
              THEN UNCHANGED <<tasks, notes, processed_db, processed_emails, handled, marked,
                               ingest>>
              ELSE IF key \in processed_emails
              THEN /\ ingest' = [NoIngest EXCEPT !.op = "duplicate", !.key = key, !.mid = x]
                   /\ UNCHANGED <<tasks, notes, processed_db, processed_emails, handled,
                                  marked>>
              ELSE /\ tasks' = IF handleOk THEN r.tasks ELSE tasks
                   /\ notes' = IF handleOk THEN r.notes ELSE notes
                   /\ ingest' = [op |-> IF handleOk THEN r.op ELSE "failed",
                                 sender |-> MailOf(x).sender, ex |-> ex,
                                 matched |-> IF handleOk THEN r.matched ELSE NoMatch,
                                 created |-> IF handleOk THEN r.created ELSE 0,
                                 pre_tasks |-> tasks, pre_notes |-> notes,
                                 oracleOk |-> oracleOk, subject |-> MailOf(x).subject,
                                 key |-> key, pre_marked |-> MarkedKeys,
                                 mid |-> x]
                   /\ handled' = [handled EXCEPT ![x] =
                                      IF handleOk /\ r.op \in {"appended", "created"}
                                      THEN Count(@) ELSE @]
                   /\ processed_db' = InsertKey(processed_db, key, insertOk)
                   /\ processed_emails' = CloudRemember(processed_emails, processed_db, key,
                                                        insertOk)
                   /\ marked' = marked \cup {[key |-> key, mid |-> x,
                                               stored |-> key \in processed_db']}
    /\ queue' = Tail(queue)
    /\ UNCHANGED <<deployment, now, last_reminder_check, reminders, mailbox, polls, restarts,
                   nstatuses, nops, running, loop>>

CloudHandleMessage ==
    \E fetchOk \in BOOLEAN, oracleOk \in BOOLEAN, handleOk \in BOOLEAN, insertOk \in BOOLEAN :
        CloudHandle(fetchOk, oracleOk, handleOk, insertOk)

\* an iteration in which every call succeeds
CloudHandleOk == CloudHandle(TRUE, TRUE, TRUE, TRUE)

\* the process is stopped and started again: CloudEmailProcessor.__init__
\* reloads processed_emails from the table
CloudRestart ==
    /\ deployment = "cloud"
    /\ restarts < MaxRestarts
    /\ \E loadOk \in BOOLEAN :
        processed_emails' = load_processed_emails(processed_db, loadOk)
    /\ queue' = <<>>
    /\ last' = [NoOp EXCEPT !.failures = last.failures]
    /\ running' = TRUE
    /\ restarts' = restarts + 1
    /\ UNCHANGED <<deployment, now, tasks, notes, last_reminder_check, reminders, mailbox,
                   processed_db, handled, marked, polls, nstatuses, ingest, nops,
                   loop>>

\* check_if_email_processed
check_if_email_processed(db, seq) == SaasKey(seq) \in db

\* create_task_for_user and the note insert of process_central_inbox: a task
\* of the same title is reused, otherwise a row is inserted; the email is
\* added as a note to that task
SaasCreateTaskWithNote(ts, ns, ex) ==
    LET same == {i \in DOMAIN ts : ts[i].title = ex.task_title}
        row  == [NewTask(ex.due_date,
                         IF ex.due_time = NoDueTime THEN <<9, 0, 0>>
                         ELSE <<ex.due_time[1], ex.due_time[2], 0>>) EXCEPT
                    !.title = ex.task_title, !.client_name = ex.client_name,
                    !.client_email = ex.client_email, !.project_name = ex.project_name]
        ts2  == IF same = {} THEN Append(ts, row) ELSE ts
        id   == IF same = {} THEN Len(ts) + 1 ELSE CHOOSE i \in same : \A j \in same : i <= j
    IN  [tasks |-> ts2, notes |-> Append(ns, EmailNote(id))]

\* process_central_inbox up to the loop, called from the loop of
\* run_email_processor: connect (a failure returns None and the pass
\* returns), select and search UNSEEN by sequence number (a failure is
\* caught around the body), queue the first 20 in reverse order; n is the
\* pass counter afterwards
SaasPoll(outcome, n) ==
    /\ deployment = "saas"
    /\ running
    /\ queue = <<>>
    /\ LET email_ids == Positions(Len(mailbox), [i \in 1..Len(mailbox) |-> ~mailbox[i].seen])
           q == IF outcome = "ok" THEN Reverse(FirstN(email_ids, SaasBatchCap)) ELSE <<>>
       IN  /\ queue' = q
           /\ last' = PassStarted("process_central_inbox", outcome, q)
    /\ running' = (outcome = "ok" \/ CaughtByExcept(outcome))
    /\ polls' = n
    /\ UNCHANGED <<deployment, now, tasks, notes, last_reminder_check, reminders, mailbox,
                   processed_db, processed_emails, handled, marked, restarts, nstatuses,
                   ingest, nops, loop>>

SaasPollStart ==
    /\ polls < MaxPolls
    /\ \E outcome \in PollOutcomes : SaasPoll(outcome, polls + 1)

\* a pass that starts with the mailbox reachable
SaasPollReachable == SaasPoll("ok", (polls % MaxPolls) + 1)

\* one iteration of the loop of process_central_inbox for a message of a
\* known user that is neither a missed-call nor a project email: fetch
\* (RFC822, which sets \Seen), check_if_email_processed, analysis, task and
\* note (create_task_for_user returns None when persistence raises),
\* mark_email_processed, store \Seen.  A failing check or store raises
\* out of the loop and ends the pass.
SaasHandle(checkOk, oracleOk, persistOk, insertOk, storeOk) ==
    /\ deployment = "saas"
    /\ running
    /\ queue # <<>>
    /\ LET seq == Head(queue)
           x   == mailbox[seq].mid
           key == SaasKey(seq)
           ex  == analyze_email_with_ai(MailOf(x), oracleOk)
           r   == SaasCreateTaskWithNote(tasks, notes, ex)
           made == ex.is_task /\ persistOk
       IN  /\ mailbox' = [mailbox EXCEPT ![seq].seen = TRUE]
           /\ last' = [last EXCEPT !.pending = @ \ {seq}]
           /\ IF ~checkOk
              THEN /\ queue' = <<>>
                   /\ UNCHANGED <<tasks, notes, processed_db, handled, marked, ingest>>
              ELSE IF check_if_email_processed(processed_db, seq)
              THEN /\ queue' = Tail(queue)
                   /\ ingest' = [NoIngest EXCEPT !.op = "duplicate", !.key = key, !.mid = x]
                   /\ UNCHANGED <<tasks, notes, processed_db, handled, marked>>
              ELSE /\ tasks' = IF made THEN r.tasks ELSE tasks
                   /\ notes' = IF made THEN r.notes ELSE notes
                   /\ handled' = [handled EXCEPT ![x] = IF made THEN Count(@) ELSE @]
                   /\ ingest' = [op |-> IF ~ex.is_task THEN "skipped"
                                        ELSE IF ~persistOk THEN "failed"
                                        ELSE IF Len(r.tasks) > Len(tasks) THEN "created"
                                        ELSE "appended",
                                 sender |-> MailOf(x).sender, ex |-> ex, matched |-> NoMatch,
                                 created |-> IF made /\ Len(r.tasks) > Len(tasks)
                                             THEN Len(r.tasks) ELSE 0,
                                 pre_tasks |-> tasks, pre_notes |-> notes,
                                 oracleOk |-> oracleOk, subject |-> MailOf(x).subject,
                                 key |-> key, pre_marked |-> MarkedKeys,
                                 mid |-> x]
                   /\ processed_db' = InsertKey(processed_db, key, insertOk)
                   /\ marked' = marked \cup {[key |-> key, mid |-> x,
                                               stored |-> key \in processed_db']}
                   /\ queue' = IF storeOk THEN Tail(queue) ELSE <<>>
    /\ UNCHANGED <<deployment, now, last_reminder_check, reminders, processed_emails, polls,
                   restarts, nstatuses, nops, running, loop>>

SaasHandleMessage ==
    \E checkOk \in BOOLEAN, oracleOk \in BOOLEAN, persistOk \in BOOLEAN, insertOk \in BOOLEAN,
       storeOk \in BOOLEAN :
        SaasHandle(checkOk, oracleOk, persistOk, insertOk, storeOk)

\* an iteration in which every call succeeds
SaasHandleOk == SaasHandle(TRUE, TRUE, TRUE, TRUE, TRUE)

\* the mailbox owner marks a message unread in a mail client
MarkUnread ==
    /\ queue = <<>>
    /\ nops < MaxOps
    /\ \E i \in 1..Len(mailbox) :
        /\ mailbox[i].seen
        /\ mailbox' = [mailbox EXCEPT ![i].seen = FALSE]
    /\ nops' = nops + 1
    /\ UNCHANGED <<deployment, now, tasks, notes, last_reminder_check, reminders,
                   processed_db, processed_emails, queue, handled, marked, polls, restarts,
                   nstatuses, ingest, last, running, loop>>

\* ------------------------------------------------------------------
\* Delay / reschedule handlers, each as the row it writes
\* ------------------------------------------------------------------

\* TaskManager.delay_task: the instant is rebuilt from due_date and due_time
\* (08:00:00 when due_time is null), the delta is added, both columns are
\* re-derived.  Only due_date and due_time are in the update.
TM_delay_task(t, hours, days) ==
    LET cur == IF t.due_time # NoDueTime
               THEN Instant(t.due_date, t.due_time)
               ELSE Instant(t.due_date, <<8, 0, 0>>)
        new == cur + hours * HourSecs + days * DaySecs
    IN  [t EXCEPT !.due_date = DateOf(new), !.due_time = StrfHMS(new)]

\* app.handle_delay: as above, but the current time replaces a missing
\* due_date/due_time, and status = 'pending' is part of the update.
App_handle_delay(t, hours, days, clock) ==
    LET cur == IF t.due_date # NoTime /\ t.due_time # NoDueTime
               THEN Instant(t.due_date, t.due_time)
               ELSE clock
        new == cur + hours * HourSecs + days * DaySecs
    IN  [t EXCEPT !.due_date = DateOf(new), !.due_time = StrfHMS(new),
                  !.status = "pending"]

\* dashboard.handle_action, action == 'delay_1hour': the hour is incremented
\* and clamped to 23, the minutes are kept, the seconds are written as 00;
\* a null due_time makes split() raise and '10:00:00' is written.  due_date
\* is not in the update.
Dash_delay_1hour(t) ==
    LET hour == IF t.due_time[1] + 1 >= 24 THEN 23 ELSE t.due_time[1] + 1
        new_time == IF t.due_time = NoDueTime
                    THEN <<10, 0, 0>>
                    ELSE <<hour, t.due_time[2], 0>>
    IN  [t EXCEPT !.due_time = new_time, !.reminder_sent_at = NoTime]

\* dashboard.handle_action, action == 'delay_1day': due_date + 1 day (the
\* day after the current date when due_date is null); due_time is not in
\* the update.
Dash_delay_1day(t, clock) ==
    LET new_date == IF t.due_date # NoTime THEN t.due_date + 1
                    ELSE DateOf(clock) + 1
    IN  [t EXCEPT !.due_date = new_date, !.reminder_sent_at = NoTime]

\* dashboard.delay_task_custom (POST /tasks/delay)
Dash_delay_task_custom(t, new_date, new_hm) ==
    [t EXCEPT !.due_date = new_date, !.due_time = <<new_hm[1], new_hm[2], 0>>,
              !.status = "pending"]

\* app.handle_custom_delay_submit (POST /action/custom_delay)
App_handle_custom_delay_submit(t, new_date, new_hm) ==
    [t EXCEPT !.due_date = new_date, !.due_time = <<new_hm[1], new_hm[2], 0>>,
              !.status = "pending"]

\* dashboard.handle_reschedule_submit (POST /action/reschedule_submit)
Dash_handle_reschedule_submit(t, new_date, new_hm) ==
    [t EXCEPT !.due_date = new_date, !.due_time = <<new_hm[1], new_hm[2], 0>>,
              !.reminder_sent_at = NoTime, !.status = "pending"]

\* dashboard.api_delay_task: the delta is added to the current time, not to
\* the task's due instant.
Dash_api_delay_task(t, hours, days, clock) ==
    LET new == clock + hours * HourSecs + days * DaySecs
    IN  [t EXCEPT !.due_date = DateOf(new), !.due_time = StrfHMS(new),
                  !.status = "pending"]

\* ------------------------------------------------------------------
\* Reminder passes
\* ------------------------------------------------------------------
WindowLateSecs == 300     \* -5 <= time_diff (minutes)
WindowEarlySecs == 1200   \* time_diff <= 20 (minutes)
CloudReminderInterval == 900
SaasReminderInterval == 60
SleepSecs == 60

\* the stretch of wall-clock time the reminder specification covers
StartTimes == {Instant(0, <<23, 28, 0>>), Instant(0, <<23, 33, 30>>)}
EndTime == Instant(0, <<23, 28, 0>>) + MaxTicks * SleepSecs
DueTimes == {<<23, 55, 0>>, <<0, 1, 0>>, <<23, 55, 40>>}

\* now.replace(hour, minute, second): the due instant on today's date
DueToday(clock, t) == DateOf(clock) * DaySecs + SecOfDay(t)

InWindow(diffSecs) == -WindowLateSecs <= diffSecs /\ diffSecs <= WindowEarlySecs

\* CloudEmailProcessor.send_task_reminders, the rows it selects and the
\* window test it applies to each: pending, due today, due_time not null,
\* -5 <= time_diff <= 20.  reminder_sent_at is neither read nor written.
CloudInWindow(t, clock) ==
    /\ t.status = "pending"
    /\ t.due_date = DateOf(clock)
    /\ t.due_time # NoDueTime
    /\ InWindow(DueToday(clock, t.due_time) - clock)

\* EnhancedTaskManager.send_task_reminder: task.get('project_statuses', {})
\* is None for a row without project status (the embedded resource is null),
\* so .get on it raises and no email is sent; otherwise the outcome is the
\* Notifier's.
CloudReminderSent(t, notifierOk) == t.project_status_id # 0 /\ notifierOk

\* check_and_send_reminders, the rows it considers due: pending, due_time
\* not null, due today in the user's timezone, and inside the window with
\* the due instant's seconds set to 0.
SaasInWindow(t, clock) ==
    /\ t.status = "pending"
    /\ t.due_time # NoDueTime
    /\ t.due_date = DateOf(clock)
    /\ InWindow(DueToday(clock, <<t.due_time[1], t.due_time[2], 0>>) - clock)

\* check_and_send_reminders: "Already sent today"
SaasAlreadySentToday(t, clock) ==
    /\ t.reminder_sent_at # NoTime
    /\ DateOf(t.reminder_sent_at) = DateOf(clock)

SaasEligible(t, clock) == SaasInWindow(t, clock) /\ ~SaasAlreadySentToday(t, clock)

TaskIds == DOMAIN tasks

NotReminded == [day |-> NoTime, n |-> 0]

\* history of one more reminder at instant clock
Reminded(h, clock) ==
    IF h.day = DateOf(clock)
    THEN [h EXCEPT !.n = IF h.n >= 2 THEN 2 ELSE h.n + 1]
    ELSE [day |-> DateOf(clock), n |-> 1]

\* history record of a handler: its name and arguments, the due_date and
\* due_time of the row it read, the tasks a reminder pass sent for, whether
\* the Notifier accepted every email of a directly invoked reminder pass,
\* the project_status_id of the row it read, the message it reported and
\* whether it issued a write to the tasks table
LastOp(op, id, hours, days) ==
    [op |-> op, id |-> id,
     pre_date |-> IF id \in TaskIds THEN tasks[id].due_date ELSE NoTime,
     pre_time |-> IF id \in TaskIds THEN tasks[id].due_time ELSE NoDueTime,
     hours |-> hours, days |-> days, sent |-> {}, ok |-> TRUE,
     pre_status |-> IF id \in TaskIds THEN tasks[id].project_status_id ELSE 0,
     report |-> "", wrote |-> FALSE, pending |-> {}, failures |-> 0]

\* One iteration of CloudEmailProcessor.start, reminder branch: a pass runs
\* when 900 s have elapsed since the last one, then the loop sleeps 60 s.
\* last.failures tells whether the Notifier has refused an email so far.
CloudSchedulerLoop ==
    /\ deployment = "cloud"
    /\ running
    /\ now < EndTime
    /\ \E notifierOk \in [TaskIds -> BOOLEAN] :
        LET due  == now - last_reminder_check >= CloudReminderInterval
            sent == {i \in TaskIds : due /\ CloudInWindow(tasks[i], now)
                                         /\ CloudReminderSent(tasks[i], notifierOk[i])}
        IN  /\ reminders' = [i \in TaskIds |->
                                IF i \in sent THEN Reminded(reminders[i], now) ELSE reminders[i]]
            /\ last_reminder_check' = IF due THEN now ELSE last_reminder_check
            /\ last' = [LastOp(IF due THEN "send_task_reminders" ELSE "sleep", 0, 0, 0)
                            EXCEPT !.sent = sent,
                                   !.failures =
                                        IF \E i \in TaskIds :
                                                /\ due /\ CloudInWindow(tasks[i], now)
                                                /\ tasks[i].project_status_id # 0
                                                /\ ~notifierOk[i]
                                        THEN 1 ELSE last.failures]
    /\ now' = now + SleepSecs
    /\ UNCHANGED <<deployment, tasks, notes, nops, nstatuses, ingest>>
    /\ UNCHANGED ledgerVars

\* One iteration of run_email_processor, reminder branch: a pass runs when
\* 60 s have elapsed since the last one (always, on the first iteration),
\* then the loop sleeps 60 s.  The stamp is a separate update, issued only
\* when the Notifier reported success.
SaasSchedulerLoop ==
    /\ deployment = "saas"
    /\ running
    /\ now < EndTime
    /\ \E notifierOk \in [TaskIds -> BOOLEAN] :
        LET due  == last_reminder_check = NoTime
                    \/ now - last_reminder_check >= SaasReminderInterval
            sent == {i \in TaskIds : due /\ SaasEligible(tasks[i], now) /\ notifierOk[i]}
        IN  /\ reminders' = [i \in TaskIds |->
                                IF i \in sent THEN Reminded(reminders[i], now) ELSE reminders[i]]
            /\ tasks' = [i \in TaskIds |->
                            IF i \in sent
                            THEN [tasks[i] EXCEPT !.reminder_sent_at = now]
                            ELSE tasks[i]]
            /\ last_reminder_check' = IF due THEN now ELSE last_reminder_check
            /\ last' = [LastOp(IF due THEN "check_and_send_reminders" ELSE "sleep", 0, 0, 0)
                            EXCEPT !.sent = sent,
                                   !.failures =
                                        IF \E i \in TaskIds :
                                                /\ due /\ SaasEligible(tasks[i], now)
                                                /\ ~notifierOk[i]
                                        THEN 1 ELSE last.failures]
    /\ now' = now + SleepSecs
    /\ UNCHANGED <<deployment, notes, nops, nstatuses, ingest>>
    /\ UNCHANGED ledgerVars

\* ------------------------------------------------------------------
\* Reminder passes invoked directly at chosen instants
\* ------------------------------------------------------------------

\* the offsets before the due instant at which a pass is run, in minutes
PassOffsets == {40, 10, 2}

\* the due instant of a stored task
DueInstant(t) == Instant(t.due_date, t.due_time)

\* the instant of the next pass after clock for a task due at T: the next
\* smaller offset of PassOffsets, NoTime when none is left
NextPassTime(T, clock) ==
    LET later == {T - o * MinSecs : o \in {x \in PassOffsets : T - x * MinSecs > clock}}
    IN  IF later = {} THEN NoTime ELSE CHOOSE p \in later : \A q \in later : p <= q

\* CloudEmailProcessor.send_task_reminders: the set of tasks a pass at
\* instant clock sends a reminder for
send_task_reminders(ts, clock, notifierOk) ==
    {i \in DOMAIN ts : CloudInWindow(ts[i], clock) /\ CloudReminderSent(ts[i], notifierOk[i])}

\* check_and_send_reminders: the set of tasks a pass at instant clock sends
\* a reminder for; each of them is stamped reminder_sent_at = now
check_and_send_reminders(ts, clock, notifierOk) ==
    {i \in DOMAIN ts : SaasEligible(ts[i], clock) /\ notifierOk[i]}

\* one call of CloudEmailProcessor.send_task_reminders at instant now
CloudReminderPass ==
    /\ deployment = "cloud"
    /\ NextPassTime(DueInstant(tasks[1]), now - 1) = now
    /\ \E notifierOk \in [TaskIds -> BOOLEAN] :
        LET sent == send_task_reminders(tasks, now, notifierOk)
        IN  /\ reminders' = [i \in TaskIds |->
                                IF i \in sent THEN Reminded(reminders[i], now) ELSE reminders[i]]
            /\ last' = [LastOp("send_task_reminders", 0, 0, 0) EXCEPT
                            !.sent = sent, !.ok = \A i \in TaskIds : notifierOk[i]]
    /\ last_reminder_check' = now
    /\ now' = IF NextPassTime(DueInstant(tasks[1]), now) = NoTime THEN now + SleepSecs
              ELSE NextPassTime(DueInstant(tasks[1]), now)
    /\ UNCHANGED <<deployment, tasks, notes, nops, nstatuses, ingest>>
    /\ UNCHANGED ledgerVars

\* one call of check_and_send_reminders at instant now
SaasReminderPass ==
    /\ deployment = "saas"
    /\ NextPassTime(DueInstant(tasks[1]), now - 1) = now
    /\ \E notifierOk \in [TaskIds -> BOOLEAN] :
        LET sent == check_and_send_reminders(tasks, now, notifierOk)
        IN  /\ reminders' = [i \in TaskIds |->
                                IF i \in sent THEN Reminded(reminders[i], now) ELSE reminders[i]]
            /\ tasks' = [i \in TaskIds |->
                            IF i \in sent
                            THEN [tasks[i] EXCEPT !.reminder_sent_at = now]
                            ELSE tasks[i]]
            /\ last' = [LastOp("check_and_send_reminders", 0, 0, 0) EXCEPT
                            !.sent = sent, !.ok = \A i \in TaskIds : notifierOk[i]]
    /\ last_reminder_check' = now
    /\ now' = IF NextPassTime(DueInstant(tasks[1]), now) = NoTime THEN now + SleepSecs
              ELSE NextPassTime(DueInstant(tasks[1]), now)
    /\ UNCHANGED <<deployment, notes, nops, nstatuses, ingest>>
    /\ UNCHANGED ledgerVars

\* ------------------------------------------------------------------
\* Web handlers and task-manager operations that move a task
\* ------------------------------------------------------------------
vars == <<deployment, now, tasks, notes, last_reminder_check, reminders, mailbox,
          processed_db, processed_emails, queue, handled, marked, polls, restarts,
          nstatuses, ingest, last, nops, running, loop>>

\* reschedule forms post a date and an HH:MM time
CustomDates == {0, 1}
CustomTimes == {<<23, 59>>, <<0, 1>>}

\* /action?action=delay_1hour | delay_1day | delay_1week in app.handle_action
AppDelayArgs == {<<1, 0>>, <<0, 1>>, <<0, 7>>}

\* update(...).eq('id', task_id).execute() of a row whose due_date/due_time
\* is in the update; ok tells whether every other call of the handler
\* succeeded
UpdateDueWith(id, row, op, hours, days, ok) ==
    /\ nops < MaxOps
    /\ tasks' = [tasks EXCEPT ![id] = row]
    /\ reminders' = [reminders EXCEPT ![id] = NotReminded]
    /\ last' = [LastOp(op, id, hours, days) EXCEPT !.ok = ok, !.wrote = TRUE]
    /\ nops' = nops + 1
    /\ UNCHANGED <<deployment, now, last_reminder_check, nstatuses, ingest>>
    /\ UNCHANGED ledgerVars

UpdateDue(id, row, op, hours, days) == UpdateDueWith(id, row, op, hours, days, TRUE)

\* TaskManager.delay_task: strptime raises on a null due_date (no write,
\* returns False); after the update a system note is added, and add_note
\* swallows its own failure.
TMDelayTask ==
    /\ deployment = "cloud"
    /\ \E id \in TaskIds, hours \in 0..MaxDelayHours, days \in 0..MaxDelayDays, noteOk \in BOOLEAN :
        /\ tasks[id].due_date # NoTime
        /\ UpdateDueWith(id, TM_delay_task(tasks[id], hours, days), "delay_task", hours, days,
                         noteOk)
        /\ notes' = IF noteOk THEN Append(notes, SystemNote(id)) ELSE notes

AppHandleDelay ==
    /\ deployment = "cloud"
    /\ \E id \in TaskIds, a \in AppDelayArgs :
        /\ UpdateDue(id, App_handle_delay(tasks[id], a[1], a[2], now), "handle_delay", a[1], a[2])
        /\ UNCHANGED notes

AppHandleCustomDelaySubmit ==
    /\ deployment = "cloud"
    /\ \E id \in TaskIds, d \in CustomDates, hm \in CustomTimes :
        /\ UpdateDue(id, App_handle_custom_delay_submit(tasks[id], d, hm),
                     "handle_custom_delay_submit", 0, 0)
        /\ UNCHANGED notes

DashDelay1Hour ==
    /\ deployment = "saas"
    /\ \E id \in TaskIds :
        /\ UpdateDue(id, Dash_delay_1hour(tasks[id]), "delay_1hour", 1, 0)
        /\ UNCHANGED notes

DashDelay1Day ==
    /\ deployment = "saas"
    /\ \E id \in TaskIds :
        /\ UpdateDue(id, Dash_delay_1day(tasks[id], now), "delay_1day", 0, 1)
        /\ UNCHANGED notes

DashDelayTaskCustom ==
    /\ deployment = "saas"
    /\ \E id \in TaskIds, d \in CustomDates, hm \in CustomTimes :
        /\ UpdateDue(id, Dash_delay_task_custom(tasks[id], d, hm), "delay_task_custom", 0, 0)
        /\ UNCHANGED notes

DashHandleRescheduleSubmit ==
    /\ deployment = "saas"
    /\ \E id \in TaskIds, d \in CustomDates, hm \in CustomTimes :
        /\ UpdateDue(id, Dash_handle_reschedule_submit(tasks[id], d, hm),
                     "handle_reschedule_submit", 0, 0)
        /\ UNCHANGED notes

DashApiDelayTask ==
    /\ deployment = "saas"
    /\ \E id \in TaskIds, hours \in 0..MaxDelayHours, days \in 0..MaxDelayDays :
        /\ UpdateDue(id, Dash_api_delay_task(tasks[id], hours, days, now),
                     "api_delay_task", hours, days)
        /\ UNCHANGED notes

\* ------------------------------------------------------------------
\* Status workflow: n statuses, ids 1..n, display_order = id
\* ------------------------------------------------------------------

\* TaskManager.get_next_status: the id of the status with display_order + 1,
\* 0 (None) when the current id is not a status or no such status exists
get_next_status(n, current_status_id) ==
    IF current_status_id \notin 1..n THEN 0
    ELSE IF current_status_id + 1 \in 1..n THEN current_status_id + 1
    ELSE 0

\* TaskManager.get_previous_status
get_previous_status(n, current_status_id) ==
    IF current_status_id \notin 1..n THEN 0
    ELSE IF current_status_id - 1 \in 1..n THEN current_status_id - 1
    ELSE 0

\* app.handle_next_status, the status it writes: current_idx is -1 when the
\* task's id is not in PROJECT_STATUSES
App_next_status(n, current_status_id) ==
    LET current_idx == IF current_status_id \in 1..n THEN current_status_id - 1 ELSE -1
    IN  IF current_idx < n - 1 THEN current_idx + 2 ELSE n

\* app.handle_prev_status, the status it writes: current_idx is 0 when the
\* task's id is not in PROJECT_STATUSES
App_prev_status(n, current_status_id) ==
    LET current_idx == IF current_status_id \in 1..n THEN current_status_id - 1 ELSE 0
    IN  IF current_idx > 0 THEN current_idx ELSE 1

\* a status handler's step on task id: the project_status_id it leaves,
\* the message it reports, whether it issued an update
StatusStep(op, id, new_status, report, wrote) ==
    /\ nops < MaxOps
    /\ tasks' = [tasks EXCEPT ![id].project_status_id = new_status]
    /\ last' = [LastOp(op, id, 0, 0) EXCEPT !.report = report, !.wrote = wrote]
    /\ nops' = nops + 1
    /\ UNCHANGED <<deployment, now, notes, last_reminder_check, reminders, nstatuses, ingest>>
    /\ UNCHANGED ledgerVars

\* TaskManager.move_task_to_next_status
TMMoveToNextStatus ==
    /\ deployment = "cloud"
    /\ \E id \in TaskIds, updateOk \in BOOLEAN :
        LET cur         == tasks[id].project_status_id
            next_status == get_next_status(nstatuses, cur)
        IN  IF next_status = 0
            THEN StatusStep("move_task_to_next_status", id, cur,
                            "Already at final status", FALSE)
            ELSE IF updateOk
            THEN StatusStep("move_task_to_next_status", id, next_status, "moved", TRUE)
            ELSE StatusStep("move_task_to_next_status", id, cur, "Update failed", TRUE)

\* TaskManager.move_task_to_previous_status
TMMoveToPreviousStatus ==
    /\ deployment = "cloud"
    /\ \E id \in TaskIds, updateOk \in BOOLEAN :
        LET cur         == tasks[id].project_status_id
            prev_status == get_previous_status(nstatuses, cur)
        IN  IF prev_status = 0
            THEN StatusStep("move_task_to_previous_status", id, cur,
                            "Already at first status", FALSE)
            ELSE IF updateOk
            THEN StatusStep("move_task_to_previous_status", id, prev_status, "moved", TRUE)
            ELSE StatusStep("move_task_to_previous_status", id, cur, "Update failed", TRUE)

\* app.handle_next_status
AppHandleNextStatus ==
    /\ deployment = "cloud"
    /\ \E id \in TaskIds, updateOk \in BOOLEAN :
        LET cur == tasks[id].project_status_id
        IN  IF nstatuses = 0
            THEN StatusStep("handle_next_status", id, cur,
                            "No project statuses configured", FALSE)
            ELSE IF updateOk
            THEN StatusStep("handle_next_status", id, App_next_status(nstatuses, cur),
                            "Status Updated", TRUE)
            ELSE StatusStep("handle_next_status", id, cur, "Failed to update status", TRUE)

\* app.handle_prev_status
AppHandlePrevStatus ==
    /\ deployment = "cloud"
    /\ \E id \in TaskIds, updateOk \in BOOLEAN :
        LET cur == tasks[id].project_status_id
        IN  IF nstatuses = 0
            THEN StatusStep("handle_prev_status", id, cur,
                            "No project statuses configured", FALSE)
            ELSE IF updateOk
            THEN StatusStep("handle_prev_status", id, App_prev_status(nstatuses, cur),
                            "Status Updated", TRUE)
            ELSE StatusStep("handle_prev_status", id, cur, "Failed to update status", TRUE)

\* ------------------------------------------------------------------
\* Specification of the delay handlers on their own: every handler applied
\* to due dates and times drawn from DelayDates x DelayTimes
\* ------------------------------------------------------------------
StoredIds == {1}     \* ids of the rows in the tasks table
DelayDates == {0, 1}
DelayTimes == {<<23, 30, 0>>, <<22, 59, 0>>, <<9, 0, 0>>, <<0, 0, 0>>, NoDueTime}
DelayClocks == {Instant(0, <<14, 0, 0>>), Instant(1, <<23, 59, 30>>)}

InitDelay ==
    /\ deployment \in {"cloud", "saas"}
    /\ now \in DelayClocks
    /\ tasks \in [StoredIds -> {NewTask(d, t) : d \in DelayDates, t \in DelayTimes}]
    /\ notes = <<>>
    /\ last_reminder_check = NoTime
    /\ reminders = [i \in StoredIds |-> NotReminded]
    /\ NoLedger
    /\ nstatuses = 1
    /\ ingest = NoIngest
    /\ last = NoOp
    /\ nops = 0
    /\ running = TRUE
    /\ loop = Idle

NextDelay ==
    \/ TMDelayTask
    \/ AppHandleDelay
    \/ AppHandleCustomDelaySubmit
    \/ DashDelay1Hour
    \/ DashDelay1Day
    \/ DashDelayTaskCustom
    \/ DashHandleRescheduleSubmit
    \/ DashApiDelayTask

SpecDelay == InitDelay /\ [][NextDelay]_vars

\* ------------------------------------------------------------------
\* Specification of the reminder scheduler with the handlers that move a
\* task: the clock runs from a start time shortly before midnight of day 0
\* for MaxTicks loop iterations
\* ------------------------------------------------------------------

InitRemind ==
    /\ deployment \in {"cloud", "saas"}
    /\ now \in StartTimes
    /\ tasks \in [StoredIds ->
                    {[NewTask(d, t) EXCEPT !.project_status_id = ps] :
                        d \in {0, 1}, t \in DueTimes, ps \in {0, 1}}]
    /\ notes = <<>>
    /\ last_reminder_check = IF deployment = "cloud" THEN now ELSE NoTime
    /\ reminders = [i \in StoredIds |-> NotReminded]
    /\ NoLedger
    /\ nstatuses = 1
    /\ ingest = NoIngest
    /\ last = NoOp
    /\ nops = 0
    /\ running = TRUE
    /\ loop = Idle

NextRemind ==
    \/ CloudSchedulerLoop
    \/ SaasSchedulerLoop
    \/ TMDelayTask
    \/ AppHandleDelay
    \/ AppHandleCustomDelaySubmit
    \/ DashDelay1Hour
    \/ DashDelay1Day
    \/ DashDelayTaskCustom
    \/ DashHandleRescheduleSubmit
    \/ DashApiDelayTask

SpecRemind == InitRemind /\ [][NextRemind]_vars

\* ------------------------------------------------------------------
\* Properties of the reminder scheduler and the delay handlers
\* ------------------------------------------------------------------

\* C2: over reminder passes during which a task's due_date and due_time are
\* not written, at most one reminder goes out for the task on any calendar
\* day, in both deployments.
C2_AtMostOneReminderPerDay == \A i \in TaskIds : reminders[i].n <= 1

\* the handlers that write due_date or due_time
MoveOps == {"delay_task", "handle_delay", "handle_custom_delay_submit", "delay_1hour",
            "delay_1day", "delay_task_custom", "handle_reschedule_submit", "api_delay_task"}

\* C4: every operation that writes a task's due_date or due_time leaves
\* reminder_sent_at null, so a task reminded today and moved is eligible
\* again.
C4_MoveClearsReminder ==
    last.op \in MoveOps => tasks[last.id].reminder_sent_at = NoTime

\* the handlers that add a delta to the task's due instant
DelayOps == {"delay_task", "handle_delay", "delay_1hour", "delay_1day"}

\* C10: a delay of h hours and d days of a task due at (D, t) writes the
\* due_date and due_time of the instant (D, t) + h hours + d days, with a
\* valid time of day, in every handler that implements delay.
C10_DelayIsExact ==
    (last.op \in DelayOps /\ last.pre_time # NoDueTime /\ last.pre_date # NoTime) =>
        /\ ValidTime(tasks[last.id].due_time)
        /\ Instant(tasks[last.id].due_date, tasks[last.id].due_time)
             = Instant(last.pre_date, last.pre_time)
                 + last.hours * HourSecs + last.days * DaySecs

\* ------------------------------------------------------------------
\* Specification of the matcher: process_single_email applied once to a
\* tasks table and a candidate drawn from small pools
\* ------------------------------------------------------------------
TaskEmails == {NoStr, <<"j", "@">>, <<"J", "@">>, <<"k", "@">>}
TaskNames == {NoStr, <<"j", "o", "e">>, <<"a", "n", "n">>}
TaskProjects == {NoStr, <<"S", "x">>}

Senders == {<<"j", "@">>, <<"k", "@">>}
CandEmails == {NoStr, <<"j", "@">>, <<"J", "@">>}
CandNames == {NoStr, <<"j", "o">>, <<"J", "o", "e">>}
CandProjects == {NoStr, <<"s">>}
KeywordLists == {<<>>, <<<<"q">>>>, <<<<"s">>, <<"q">>>>}

\* rows a tasks table can hold when n project statuses are configured
Rows(n) ==
    {[NewTask(0, <<9, 0, 0>>) EXCEPT !.title = <<"q">>, !.client_email = e,
            !.client_name = nm, !.project_name = pr, !.project_status_id = ps] :
        e \in TaskEmails, nm \in TaskNames, pr \in TaskProjects,
        ps \in (IF n > 0 THEN {0, 1} ELSE {0})}
    \cup
    {[NewTask(0, <<9, 0, 0>>) EXCEPT !.title = <<"q">>, !.status = "completed",
            !.completed_at = 0, !.client_email = <<"j", "@">>,
            !.client_name = <<"j", "o", "e">>, !.project_name = <<"S", "x">>,
            !.project_status_id = IF n > 0 THEN 1 ELSE 0]}

Candidates ==
    {[is_task |-> TRUE, client_email |-> e, client_name |-> nm, project_name |-> pr,
      project_keywords |-> kw, task_title |-> <<"q">>, due_date |-> NoTime,
      due_time |-> NoDueTime, has_note |-> TRUE, suggested |-> 2] :
        e \in CandEmails, nm \in CandNames, pr \in CandProjects, kw \in KeywordLists}

InitMatch ==
    /\ deployment = "cloud"
    /\ now = Instant(2, <<14, 0, 0>>)
    /\ nstatuses \in {0, 2}
    /\ \E len \in 1..MaxRows : tasks \in [1..len -> Rows(nstatuses)]
    /\ notes = <<>>
    /\ last_reminder_check = NoTime
    /\ reminders = <<>>
    /\ NoLedger
    /\ ingest = NoIngest
    /\ last = NoOp
    /\ nops = 0
    /\ running = TRUE
    /\ loop = Idle

\* one call of process_single_email, the email's sender, whether
\* is_system_email holds of it, and the oracle's answer being the inputs
ProcessSingleEmail ==
    /\ ingest.op = "none"
    /\ \E sender \in Senders, system \in BOOLEAN, ex \in Candidates \cup {NotATask} :
        LET r == process_single_email(tasks, notes, nstatuses, sender, system, ex, now)
        IN  /\ (system => ex = NotATask)
            /\ tasks' = r.tasks
            /\ notes' = r.notes
            /\ ingest' = [op |-> r.op, sender |-> sender, ex |-> ex, matched |-> r.matched,
                          created |-> r.created, pre_tasks |-> tasks, pre_notes |-> notes,
                          oracleOk |-> TRUE, subject |-> NoStr, key |-> NoKey,
             pre_marked |-> {}, mid |-> 0]
    /\ UNCHANGED <<deployment, now, last_reminder_check, reminders, nstatuses, last, nops>>
    /\ UNCHANGED ledgerVars

NextMatch == ProcessSingleEmail

SpecMatch == InitMatch /\ [][NextMatch]_vars

\* ------------------------------------------------------------------
\* Properties of the matcher
\* ------------------------------------------------------------------
\* the email was actionable: not a system email, and the oracle said is_task
Handled == ingest.op \in {"appended", "created"}

PreOpen == Open(ingest.pre_tasks)

\* task row t carries the candidate's address, compared case-insensitively
EmailAgrees(t, e) == e # NoStr /\ t.client_email # NoStr /\ Lower(t.client_email) = Lower(e)

\* the candidate's client_name is a case-insensitive substring of t's
NameAgrees(t, nm) == nm # NoStr /\ t.client_name # NoStr /\ IsSubstr(Lower(nm), Lower(t.client_name))

ProjectAgrees(t, pr) == pr # NoStr /\ t.project_name # NoStr /\ IsSubstr(Lower(pr), Lower(t.project_name))

KeywordHit(t, kws) ==
    \E k \in 1..Len(kws) :
        \/ IsSubstr(Lower(kws[k]), Lower(t.title))
        \/ (t.project_name # NoStr /\ IsSubstr(Lower(kws[k]), Lower(t.project_name)))

\* t shares a keyword with the candidate and nothing else
KeywordOnly(t, ex) ==
    /\ KeywordHit(t, ex.project_keywords)
    /\ ~EmailAgrees(t, ex.client_email)
    /\ ~NameAgrees(t, ex.client_name)
    /\ ~ProjectAgrees(t, ex.project_name)

\* C5: when an open task A carries the candidate's client_email (compared
\* case-insensitively) and a different open task B is matched only by a
\* keyword, the matcher returns a task carrying that client_email, never B
\* and never "no match".
C5_ExactEmailWins ==
    Handled =>
        \A a, b \in PreOpen :
            ( /\ a # b
              /\ EmailAgrees(ingest.pre_tasks[a], ingest.ex.client_email)
              /\ KeywordOnly(ingest.pre_tasks[b], ingest.ex) )
            => ( /\ ingest.matched.id # 0
                 /\ EmailAgrees(ingest.pre_tasks[ingest.matched.id], ingest.ex.client_email) )

\* rule 3 of the matcher on its own: keyword with identity check
Rule3(ts, ex) == KeywordStrategy(ts, ex.project_keywords, ex.client_email, ex.client_name).id

\* rule 4 of the matcher on its own: fuzzy client name, names longer than 2
Rule4(ts, ex) ==
    Newest({i \in Open(ts) : Len(ex.client_name) > 2 /\ NameAgrees(ts[i], ex.client_name)})

\* C6: the rules apply in the order exact email, project name, keyword with
\* identity check, fuzzy client name; in particular, when neither of the
\* first two rules matches, rule 3 would select task A and rule 4 a
\* different task B, the result is A.
C6_KeywordBeforeFuzzyName ==
    ( /\ Handled
      /\ \A i \in PreOpen : /\ ~EmailAgrees(ingest.pre_tasks[i], ingest.ex.client_email)
                            /\ ~ProjectAgrees(ingest.pre_tasks[i], ingest.ex.project_name)
      /\ Rule3(ingest.pre_tasks, ingest.ex) # 0
      /\ Rule4(ingest.pre_tasks, ingest.ex) # 0
      /\ Rule3(ingest.pre_tasks, ingest.ex) # Rule4(ingest.pre_tasks, ingest.ex) )
    => ingest.matched.id = Rule3(ingest.pre_tasks, ingest.ex)

\* C7: a task returned by the keyword strategy agrees with the candidate on
\* client identity (same client_email case-insensitively, or the candidate's
\* client_name a case-insensitive substring of the task's), and an open task
\* that shares only a keyword with the candidate is never returned.
C7_KeywordMatchIsSameClient ==
    /\ ingest.matched.via = "keyword" =>
          \/ EmailAgrees(ingest.pre_tasks[ingest.matched.id], ingest.ex.client_email)
          \/ NameAgrees(ingest.pre_tasks[ingest.matched.id], ingest.ex.client_name)
    /\ Handled =>
          \A b \in PreOpen :
              KeywordOnly(ingest.pre_tasks[b], ingest.ex) => ingest.matched.id # b

\* a keyword match happened while an open task shared only a keyword
C7_Witness ==
    /\ ingest.matched.via = "keyword"
    /\ \E b \in PreOpen : KeywordOnly(ingest.pre_tasks[b], ingest.ex)

\* C8: an actionable email whose sender address is the client_email of an
\* open task (and is the client_email the oracle extracted) creates no task
\* and appends exactly one note, source email, to a task of that client.
C8_ReplyAppendsOneNote ==
    ( /\ Handled
      /\ ingest.ex.client_email = ingest.sender
      /\ \E a \in PreOpen : ingest.pre_tasks[a].client_email = ingest.sender )
    => /\ Len(tasks) = Len(ingest.pre_tasks)
       /\ Len(notes) = Len(ingest.pre_notes) + 1
       /\ notes[Len(notes)].source = "email"
       /\ ingest.pre_tasks[notes[Len(notes)].task_id].client_email = ingest.sender

\* C9: appending an email to a matched task never changes a client_email or
\* client_name that was already populated.
C9_BackfillKeepsPopulated ==
    ingest.op = "appended" =>
        LET before == ingest.pre_tasks[ingest.matched.id]
            after  == tasks[ingest.matched.id]
        IN  /\ before.client_email # NoStr => after.client_email = before.client_email
            /\ before.client_name # NoStr => after.client_name = before.client_name

\* ------------------------------------------------------------------
\* Specification of ingestion with the dedup ledger: an inbox of two
\* messages, polled MaxPolls times, with restarts and failing calls
\* ------------------------------------------------------------------
\* wall-clock instants (Brisbane) at which the inbox is polled: Wednesday
\* 14:00, Friday 14:00, Wednesday 08:00, Wednesday 09:30
IngestClocks == {Instant(2, <<14, 0, 0>>), Instant(4, <<14, 0, 0>>), Instant(2, <<8, 0, 0>>),
                 Instant(2, <<9, 30, 0>>)}

InitDedup ==
    /\ deployment \in {"cloud", "saas"}
    /\ now \in IngestClocks
    /\ tasks = <<>>
    /\ notes = <<>>
    /\ last_reminder_check = NoTime
    /\ reminders = <<>>
    /\ mailbox = [x \in 1..Len(Mail) |-> [mid |-> x, seen |-> FALSE]]
    /\ processed_db = {}
    /\ processed_emails = {}
    /\ queue = <<>>
    /\ handled = [x \in 1..Len(Mail) |-> 0]
    /\ marked = {}
    /\ polls = 0
    /\ restarts = 0
    /\ nstatuses \in {0, 1}
    /\ ingest = NoIngest
    /\ last = NoOp
    /\ nops = 0
    /\ running = TRUE
    /\ loop = Idle

NextDedup ==
    \/ CloudPollStart
    \/ CloudHandleMessage
    \/ CloudRestart
    \/ SaasPollStart
    \/ SaasHandleMessage
    \/ MarkUnread

SpecDedup == InitDedup /\ [][NextDedup]_vars

\* ------------------------------------------------------------------
\* Properties of the dedup ledger
\* ------------------------------------------------------------------

\* C1: whatever the polls, restarts and failing persistence calls, a message
\* that the mailbox offers more than once produces one Task-or-Note side
\* effect in total.
C1_AtMostOnceSideEffect == \A x \in DOMAIN handled : handled[x] <= 1

\* isProcessed: the membership test of each processor
IsProcessed(key) ==
    IF deployment = "cloud" THEN key \in processed_emails ELSE key \in processed_db

\* C3: once mark_email_processed has returned for a key, the ledger's
\* membership test for it is true in every later state, restarts included.
C3_MarkedStaysProcessed == \A key \in MarkedKeys : IsProcessed(key)

\* ------------------------------------------------------------------
\* Specification of reminder passes run 40, 10 and 2 minutes before a
\* task's due instant
\* ------------------------------------------------------------------
WindowDueTimes == {<<0, 40, 0>>, <<8, 0, 0>>, <<9, 0, 0>>, <<12, 30, 0>>, <<17, 15, 0>>,
                   <<23, 59, 0>>}

InitWindow ==
    /\ deployment \in {"cloud", "saas"}
    /\ nstatuses \in {0, 1}
    /\ tasks \in [StoredIds ->
                    {[NewTask(d, t) EXCEPT !.project_status_id = ps] :
                        d \in {0, 1}, t \in WindowDueTimes, ps \in 0..nstatuses}]
    /\ now = NextPassTime(DueInstant(tasks[1]), NoTime)
    /\ notes = <<>>
    /\ last_reminder_check = NoTime
    /\ reminders = [i \in StoredIds |-> NotReminded]
    /\ NoLedger
    /\ ingest = NoIngest
    /\ last = NoOp
    /\ nops = 0
    /\ running = TRUE
    /\ loop = Idle

NextWindow ==
    \/ CloudReminderPass
    \/ SaasReminderPass

SpecWindow == InitWindow /\ [][NextWindow]_vars

\* the last step was a reminder pass run m minutes before task 1's due
\* instant, and the Notifier accepted what it was given
PassRanAt(m) ==
    /\ last.op \in {"send_task_reminders", "check_and_send_reminders"}
    /\ last.ok
    /\ last_reminder_check = DueInstant(tasks[1]) - m * MinSecs

\* C11: for a pending task (one that has a workflow status) due today at T
\* with no reminder sent yet, a pass at T-40min sends nothing and leaves
\* reminder_sent_at unset, a pass at T-10min sends exactly one reminder and
\* stamps reminder_sent_at, and a pass at T-2min the same day sends no
\* second reminder.
C11_WindowThenOnce ==
    tasks[1].project_status_id # 0 =>
    /\ PassRanAt(40) => /\ last.sent = {}
                        /\ reminders[1].n = 0
                        /\ tasks[1].reminder_sent_at = NoTime
    /\ PassRanAt(10) => /\ 1 \in last.sent
                        /\ reminders[1].n = 1
                        /\ tasks[1].reminder_sent_at # NoTime
    /\ PassRanAt(2) => reminders[1].n <= 1

\* ------------------------------------------------------------------
\* Properties of extraction failure and of the default due instant
\* ------------------------------------------------------------------

\* C12: when the oracle call fails or its output is not JSON, the email is
\* not dropped; the task created for it has the email's subject as title and
\* is due today.
C12_OracleFailureFallsBack ==
    (ingest.op # "none" /\ ~ingest.oracleOk) =>
        /\ ingest.op \in {"created", "appended"}
        /\ ingest.created # 0 =>
              /\ tasks[ingest.created].title = ingest.subject
              /\ tasks[ingest.created].due_date = DateOf(now)

\* C13: a task created by process_single_email from an answer without due
\* date and due time is due at 09:00, today (the user's calendar date) when
\* it is before 09:00 in the user's timezone, otherwise on the first day
\* after today that is neither Saturday nor Sunday.
C13_DefaultDueNextBusinessDay ==
    ( /\ deployment = "cloud"
      /\ ingest.op = "created"
      /\ ingest.ex.due_date = NoTime
      /\ ingest.ex.due_time = NoDueTime )
    => LET t     == tasks[ingest.created]
           today == DateOf(now)
           next  == CHOOSE d \in (today + 1)..(today + 3) :
                        /\ d % 7 < 5
                        /\ \A e \in (today + 1)..(d - 1) : e % 7 >= 5
       IN  /\ t.due_time = <<9, 0, 0>>
           /\ t.due_date = IF SecOfDay(StrfHMS(now)) < 9 * HourSecs THEN today ELSE next

\* ------------------------------------------------------------------
\* Specification of the status workflow: the four transition handlers
\* applied to tasks at every status of a workflow of 0..MaxStatuses statuses
\* ------------------------------------------------------------------
InitStatus ==
    /\ deployment = "cloud"
    /\ now = Instant(2, <<14, 0, 0>>)
    /\ nstatuses \in 0..MaxStatuses
    /\ tasks \in [1..2 -> {[NewTask(2, <<9, 0, 0>>) EXCEPT !.project_status_id = ps] :
                              ps \in 0..nstatuses}]
    /\ notes = <<>>
    /\ last_reminder_check = NoTime
    /\ reminders = [i \in 1..2 |-> NotReminded]
    /\ NoLedger
    /\ ingest = NoIngest
    /\ last = NoOp
    /\ nops = 0
    /\ running = TRUE
    /\ loop = Idle

NextStatus ==
    \/ TMMoveToNextStatus
    \/ TMMoveToPreviousStatus
    \/ AppHandleNextStatus
    \/ AppHandlePrevStatus

SpecStatus == InitStatus /\ [][NextStatus]_vars

NextOps == {"move_task_to_next_status", "handle_next_status"}
PrevOps == {"move_task_to_previous_status", "handle_prev_status"}
UpdateFailed == {"Update failed", "Failed to update status"}

\* C14: in a workflow of N statuses, next at the last status leaves
\* project_status_id unchanged and reports that there is no further stage,
\* previous at the first status does the same, and from any other status
\* next/previous move exactly one position in display_order; for both the
\* TaskManager methods and the app handlers, whenever the store accepts the
\* update.
C14_StatusClamp ==
    LET new == IF last.id \in TaskIds THEN tasks[last.id].project_status_id ELSE 0
    IN  /\ (last.op \in NextOps /\ nstatuses > 0 /\ last.pre_status = nstatuses
                /\ last.report \notin UpdateFailed) =>
              /\ new = nstatuses
              /\ last.report = "Already at final status"
        /\ (last.op \in PrevOps /\ nstatuses > 0 /\ last.pre_status = 1
                /\ last.report \notin UpdateFailed) =>
              /\ new = 1
              /\ last.report = "Already at first status"
        /\ (last.op \in NextOps /\ last.pre_status \in 1..(nstatuses - 1)
                /\ last.report \notin UpdateFailed) =>
              new = last.pre_status + 1
        /\ (last.op \in PrevOps /\ last.pre_status \in 2..nstatuses
                /\ last.report \notin UpdateFailed) =>
              new = last.pre_status - 1

\* C16: with no statuses configured next and previous leave
\* project_status_id unchanged, issue no write, and report a failure that is
\* not the message of the clamp at the last/first status.
C16_NoStatusesNoOp ==
    (last.op \in NextOps \cup PrevOps /\ nstatuses = 0) =>
        /\ tasks[last.id].project_status_id = last.pre_status
        /\ ~last.wrote
        /\ last.report \notin {"Already at final status", "Already at first status",
                               "moved", "Status Updated"}

\* C15: with no statuses configured, or for a task whose project_status_id
\* is null, the reminder pass still sends the task's reminder when the pass
\* runs inside the send window (10 minutes before the due instant) and the
\* Notifier accepts it.
C15_ReminderWithoutWorkflow ==
    (PassRanAt(10) /\ tasks[1].project_status_id = 0) =>
        /\ 1 \in last.sent
        /\ reminders[1].n = 1

\* ------------------------------------------------------------------
\* Specification of deferral: an inbox of up to MaxMail unread messages
\* inside the lookback window, no new mail, polls running for ever with the
\* mailbox reachable (polls counts them modulo MaxPolls)
\* ------------------------------------------------------------------
InitDefer ==
    /\ deployment \in {"cloud", "saas"}
    /\ now \in IngestClocks
    /\ nstatuses \in {0, 1}
    /\ tasks = <<>>
    /\ notes = <<>>
    /\ last_reminder_check = NoTime
    /\ reminders = <<>>
    /\ \E size \in 1..MaxMail :
        /\ mailbox = [x \in 1..size |-> [mid |-> x, seen |-> FALSE]]
        /\ handled = [x \in 1..size |-> 0]
    /\ processed_db = {}
    /\ processed_emails = {}
    /\ queue = <<>>
    /\ marked = {}
    /\ polls = 0
    /\ restarts = 0
    /\ ingest = NoIngest
    /\ last = NoOp
    /\ nops = 0
    /\ running = TRUE
    /\ loop = Idle

NextDefer ==
    \/ CloudPollReachable
    \/ CloudHandleOk
    \/ SaasPollReachable
    \/ SaasHandleOk

\* the scheduler loop keeps ticking: some step of the pass is always taken
SpecDefer == InitDefer /\ [][NextDefer]_vars /\ WF_vars(NextDefer)

\* C17: every message of the inbox is eventually handled by some poll, also
\* when the inbox holds more unprocessed messages than one poll takes.
C17_DeferredNotStarved == <>(\A x \in DOMAIN handled : handled[x] >= 1)


\* C18: when a pass has ended, every message it queued has been attempted:
\* a failure while handling one message does not keep the pass from the
\* other messages of its batch.
C18_FailureAbandonsOneMessage ==
    (last.op \in PassOps /\ queue = <<>>) => last.pending = {}

\* C19: a message whose handling failed is not recorded in the dedup ledger
\* by that pass, neither in the processed_emails table nor in the in-memory
\* set, so that a later pass retries it.
C19_FailedNotRecorded ==
    (ingest.op = "failed" /\ ingest.key \notin ingest.pre_marked) =>
        /\ ingest.key \notin processed_db
        /\ ingest.key \notin processed_emails

\* C20: a mailbox failure ends only the pass it happens in: the scheduler
\* loop is still running afterwards, and while passes remain to be run the
\* next one can start without a restart of the process.
C20_LoopSurvivesMailboxFailure ==
    last.failures > 0 =>
        /\ running
        /\ (queue = <<>> /\ polls < MaxPolls) => ENABLED (CloudPollStart \/ SaasPollStart)

\* a pass failed on the mailbox, no restart happened, and the pass after it
\* queued the whole inbox and handled every message of it
C20_Witness ==
    /\ last.failures > 0
    /\ restarts = 0
    /\ last.op \in PassOps
    /\ last.ok
    /\ queue = <<>>
    /\ \A x \in DOMAIN handled : handled[x] >= 1


\* ------------------------------------------------------------------
\* The scheduler loop, call by call (CloudEmailProcessor.start and
\* run_email_processor)
\* ------------------------------------------------------------------
CloudEmailInterval == 900

\* self.process_emails(), self.send_task_reminders(), process_central_inbox()
\* and check_and_send_reminders() are plain calls in the body of the loop:
\* the loop goes on only when the call has returned
CallerWaits_mut(kind) == kind # "ingestion"
CallerWaits(kind) == kind \in {"ingestion", "reminder"}

\* one more / one fewer pass in flight (2 stands for two or more)
Started(n) == IF n >= 2 THEN 2 ELSE n + 1
Finished(n) == IF n = 2 THEN 2 ELSE n - 1

\* the email branch of an iteration: the cloud loop calls process_emails
\* when 900 s have elapsed since last_email_check, the SaaS loop calls
\* process_central_inbox on every iteration
LoopEmailCheck ==
    /\ running
    /\ loop.pc = "top"
    /\ LET due == \/ deployment = "saas"
                  \/ now - loop.last_email_check >= CloudEmailInterval
       IN  loop' = IF due
                   THEN [loop EXCEPT !.ingestion = Started(@),
                                     !.last_email_check = now,
                                     !.pc = IF CallerWaits("ingestion") THEN "in_ingestion"
                                            ELSE "mid"]
                   ELSE [loop EXCEPT !.pc = "mid"]
    /\ UNCHANGED <<deployment, now, tasks, notes, last_reminder_check, reminders, mailbox,
                   processed_db, processed_emails, queue, handled, marked, polls, restarts,
                   nstatuses, ingest, last, nops, running>>

\* the ingestion pass returns
IngestionReturns ==
    /\ loop.ingestion > 0
    /\ loop' = [loop EXCEPT !.ingestion = Finished(@),
                            !.pc = IF @ = "in_ingestion" THEN "mid" ELSE @]
    /\ UNCHANGED <<deployment, now, tasks, notes, last_reminder_check, reminders, mailbox,
                   processed_db, processed_emails, queue, handled, marked, polls, restarts,
                   nstatuses, ingest, last, nops, running>>

\* the reminder branch of an iteration: the cloud loop calls
\* send_task_reminders when 900 s have elapsed since last_reminder_check, the
\* SaaS loop calls check_and_send_reminders when 60 s have
LoopReminderCheck ==
    /\ running
    /\ loop.pc = "mid"
    /\ LET due == \/ last_reminder_check = NoTime
                  \/ now - last_reminder_check >=
                        (IF deployment = "cloud" THEN CloudReminderInterval
                         ELSE SaasReminderInterval)
       IN  /\ loop' = IF due
                      THEN [loop EXCEPT !.reminder = Started(@),
                                        !.pc = IF CallerWaits("reminder") THEN "in_reminder"
                                               ELSE "sleep"]
                      ELSE [loop EXCEPT !.pc = "sleep"]
           /\ last_reminder_check' = IF due THEN now ELSE last_reminder_check
    /\ UNCHANGED <<deployment, now, tasks, notes, reminders, mailbox,
                   processed_db, processed_emails, queue, handled, marked, polls, restarts,
                   nstatuses, ingest, last, nops, running>>

\* the reminder pass returns
ReminderReturns ==
    /\ loop.reminder > 0
    /\ loop' = [loop EXCEPT !.reminder = Finished(@),
                            !.pc = IF @ = "in_reminder" THEN "sleep" ELSE @]
    /\ UNCHANGED <<deployment, now, tasks, notes, last_reminder_check, reminders, mailbox,
                   processed_db, processed_emails, queue, handled, marked, polls, restarts,
                   nstatuses, ingest, last, nops, running>>

\* time.sleep(60) at the end of an iteration
LoopSleep ==
    /\ running
    /\ loop.pc = "sleep"
    /\ now < EndTime
    /\ now' = now + SleepSecs
    /\ loop' = [loop EXCEPT !.pc = "top"]
    /\ UNCHANGED <<deployment, tasks, notes, last_reminder_check, reminders, mailbox,
                   processed_db, processed_emails, queue, handled, marked, polls, restarts,
                   nstatuses, ingest, last, nops, running>>

\* start sets last_email_check and last_reminder_check to the time it is
\* called; run_email_processor starts with last_reminder_check = 0
InitLoop ==
    /\ deployment \in {"cloud", "saas"}
    /\ now \in StartTimes
    /\ tasks = <<>>
    /\ notes = <<>>
    /\ last_reminder_check = IF deployment = "cloud" THEN now ELSE NoTime
    /\ reminders = <<>>
    /\ mailbox = <<>>
    /\ processed_db = {}
    /\ processed_emails = {}
    /\ queue = <<>>
    /\ handled = <<>>
    /\ marked = {}
    /\ polls = 0
    /\ restarts = 0
    /\ nstatuses = 0
    /\ ingest = NoIngest
    /\ last = NoOp
    /\ nops = 0
    /\ running = TRUE
    /\ loop = [Idle EXCEPT !.last_email_check = IF deployment = "cloud" THEN now ELSE NoTime]

NextLoop ==
    \/ LoopEmailCheck
    \/ IngestionReturns
    \/ LoopReminderCheck
    \/ ReminderReturns
    \/ LoopSleep

SpecLoop == InitLoop /\ [][NextLoop]_vars

RECURSIVE ProcessBatch(_, _, _, _, _)
ProcessBatch(ts, ns, n, batch, clock) ==
    IF batch = <<>> THEN [tasks |-> ts, notes |-> ns, ops |-> <<>>]
    ELSE LET r    == process_single_email(ts, ns, n, Head(batch).sender, FALSE,
                                          Head(batch).ex, clock)
             rest == ProcessBatch(r.tasks, r.notes, n, Tail(batch), clock)
         IN  [rest EXCEPT !.ops = <<r.op>> \o @]

\* the names the oracle extracts for the client
BatchNames == {NoStr, <<"J", "o">>, <<"J", "o", "e">>}

\* the due_date and due_time the oracle extracts: none, or a day of the
\* following week and an afternoon time
OracleDates == {NoTime, 9}
OracleTimes == {NoDueTime, <<14, 30, 0>>}

\* the oracle's answer for an email of client j@ with no project
BatchEx(name, title, due_date, due_time) ==
    [is_task |-> TRUE, client_email |-> <<"j", "@">>, client_name |-> name,
     project_name |-> NoStr, project_keywords |-> <<>>, task_title |-> title,
     due_date |-> due_date, due_time |-> due_time, has_note |-> TRUE, suggested |-> 0]

\* a row of another client
OtherRow == [NewTask(0, <<9, 0, 0>>) EXCEPT !.client_email = <<"k", "@">>,
                                             !.client_name = <<"a", "n", "n">>,
                                             !.title = <<"s">>]

\* process_emails handles a batch of two actionable emails from j@
CloudProcessBatch ==
    /\ deployment = "cloud"
    /\ ingest.op = "none"
    /\ \E name1 \in BatchNames, name2 \in BatchNames, d \in OracleDates, t \in OracleTimes :
        LET batch == << [sender |-> <<"j", "@">>, ex |-> BatchEx(name1, <<"q">>, d, t)],
                        [sender |-> <<"j", "@">>, ex |-> BatchEx(name2, <<"r">>, d, t)] >>
            r == ProcessBatch(tasks, notes, nstatuses, batch, now)
        IN  /\ tasks' = r.tasks
            /\ notes' = r.notes
            /\ ingest' = [NoIngest EXCEPT !.op = "batch", !.sender = <<"j", "@">>,
                                          !.ex = batch[2].ex, !.pre_tasks = tasks,
                                          !.pre_notes = notes, !.subject = r.ops]
    /\ UNCHANGED <<deployment, now, last_reminder_check, reminders, nstatuses, last, nops>>
    /\ UNCHANGED ledgerVars

InitBatch ==
    /\ deployment = "cloud"
    /\ now \in IngestClocks \cup StartTimes
    /\ nstatuses \in 0..MaxStatuses
    /\ tasks \in {<<>>, <<OtherRow>>}
    /\ notes = <<>>
    /\ last_reminder_check = NoTime
    /\ reminders = <<>>
    /\ NoLedger
    /\ ingest = NoIngest
    /\ last = NoOp
    /\ nops = 0
    /\ running = TRUE
    /\ loop = Idle

NextBatch == CloudProcessBatch

SpecBatch == InitBatch /\ [][NextBatch]_vars

\* C22: the two emails of the batch yield exactly one new task, created by
\* the first handled, and the second is appended to it as a note.
C22_SecondEmailSeesFirst ==
    ingest.op = "batch" =>
        /\ Len(tasks) = Len(ingest.pre_tasks) + 1
        /\ ingest.subject = <<"created", "appended">>
        /\ notes[Len(notes)].task_id = Len(tasks)


\* ------------------------------------------------------------------
\* Specification of the ledger keys: the ingestion passes of the dedup
\* specification on an inbox into which mail arrives and from which the
\* owner deletes mail
\* ------------------------------------------------------------------

\* the next message of Mail is delivered to the inbox (all deliveries come
\* before the deletion, so that no message is delivered twice)
Arrive ==
    /\ queue = <<>>
    /\ nops = 0
    /\ Len(mailbox) < Len(Mail)
    /\ mailbox' = Append(mailbox, [mid |-> Len(mailbox) + 1, seen |-> FALSE])
    /\ UNCHANGED <<deployment, now, tasks, notes, last_reminder_check, reminders,
                   processed_db, processed_emails, queue, handled, marked, polls, restarts,
                   nstatuses, ingest, last, nops, running, loop>>

\* the mailbox owner deletes a message and the server expunges it: the
\* messages after it move down one sequence number, their UIDs stay
Expunge ==
    /\ queue = <<>>
    /\ nops < MaxOps
    /\ \E i \in 1..Len(mailbox) :
        mailbox' = [j \in 1..(Len(mailbox) - 1) |-> IF j < i THEN mailbox[j] ELSE mailbox[j + 1]]
    /\ nops' = nops + 1
    /\ UNCHANGED <<deployment, now, tasks, notes, last_reminder_check, reminders,
                   processed_db, processed_emails, queue, handled, marked, polls, restarts,
                   nstatuses, ingest, last, running, loop>>

InitKey ==
    /\ deployment \in {"cloud", "saas"}
    /\ now \in IngestClocks
    /\ tasks = <<>>
    /\ notes = <<>>
    /\ last_reminder_check = NoTime
    /\ reminders = <<>>
    /\ mailbox = <<[mid |-> 1, seen |-> FALSE]>>
    /\ processed_db = {}
    /\ processed_emails = {}
    /\ queue = <<>>
    /\ handled = [x \in 1..Len(Mail) |-> 0]
    /\ marked = {}
    /\ polls = 0
    /\ restarts = 0
    /\ nstatuses \in {0, 1}
    /\ ingest = NoIngest
    /\ last = NoOp
    /\ nops = 0
    /\ running = TRUE
    /\ loop = Idle

NextKey ==
    \/ CloudPollStart
    \/ CloudHandleMessage
    \/ SaasPollStart
    \/ SaasHandleMessage
    \/ Arrive
    \/ Expunge

SpecKey == InitKey /\ [][NextKey]_vars

\* the recorded keys, each with the message it was recorded for
Recorded == {m \in marked : m.stored}

\* C23: the ledger key of a message is stable and unique: a message is
\* never recorded under two keys, two messages are never recorded under one
\* key, and a message skipped as already processed is one that was recorded
\* under the key it was skipped for.
C23_KeyStableAndUnique ==
    /\ \A a \in Recorded, b \in Recorded : a.mid = b.mid => a.key = b.key
    /\ \A a \in Recorded, b \in Recorded : a.key = b.key => a.mid = b.mid
    /\ ingest.op = "duplicate" =>
        \E m \in marked : m.key = ingest.key /\ m.mid = ingest.mid


\* the handlers that delay or reschedule a task and are held to leave an
\* audit note
AuditedOps == {"delay_task", "handle_delay", "handle_custom_delay_submit",
               "handle_reschedule_submit"}

\* C24: after a successful delay or custom reschedule (the write to the row
\* was made and no call of the handler failed) the last note of the table is an audit note for that task,
\* appended by that handler.
C24_DelayWritesAuditNote ==
    (last.op \in AuditedOps /\ last.wrote /\ last.ok) =>
        /\ Len(notes) = 1
        /\ notes[Len(notes)] = SystemNote(last.id)


\* the reminder passes
ReminderOps == {"send_task_reminders", "check_and_send_reminders"}

\* a task a pass at instant clock may remind of: pending, due on the date of
\* clock, with a due time, the due instant no more than 20 minutes ahead
\* and no more than 5 minutes past
MayRemind(t, clock) ==
    /\ t.status = "pending"
    /\ t.due_date = DateOf(clock)
    /\ t.due_time # NoDueTime
    /\ InWindow(Instant(t.due_date, t.due_time) - clock)

\* C25: a reminder pass sends only for tasks that are pending, due today,
\* have a due time and a due instant inside the window, and it stamps
\* reminder_sent_at of no other task.
C25_ReminderOnlyInWindow ==
    last.op \in ReminderOps =>
        \A i \in TaskIds :
            /\ i \in last.sent => MayRemind(tasks[i], last_reminder_check)
            /\ ~MayRemind(tasks[i], last_reminder_check) =>
                    tasks[i].reminder_sent_at # last_reminder_check


\* the ids the search of the pass returns: every message of the window for
\* the cloud pass (UIDs), the unread ones for the SaaS pass (sequence
\* numbers); the larger id is the more recent message
SearchResult ==
    IF deployment = "cloud" THEN {mailbox[i].mid : i \in 1..Len(mailbox)}
    ELSE {i \in 1..Len(mailbox) : ~mailbox[i].seen}

\* a pass has queued its batch and handled none of it yet
BatchQueued ==
    /\ last.op \in PassOps
    /\ queue # <<>>
    /\ Cardinality(last.pending) = Len(queue)

\* C26: the batch of a pass holds at most the per-poll cap of messages, they
\* are the most recent ones of the search result, and they are queued
\* newest first.
C26_NewestCappedNewestFirst ==
    BatchQueued =>
        /\ Len(queue) <= (IF deployment = "cloud" THEN CloudBatchCap ELSE SaasBatchCap)
        /\ \A i \in 1..Len(queue), j \in 1..Len(queue) : i < j => queue[i] > queue[j]
        /\ \A x \in SearchResult : \A i \in 1..Len(queue) : x >= queue[i] => x \in last.pending


\* ------------------------------------------------------------------
\* Specification of a SaaS reminder pass interleaved with the web
\* handlers: the pass reads the rows, then sends and stamps, and a web
\* request may be served in between
\* ------------------------------------------------------------------

\* check_and_send_reminders up to the Notifier call: the select of the
\* pending rows with a due time, and on each row read the tests for due
\* today, the window and "already sent today"
SaasReminderSelect ==
    /\ deployment = "saas"
    /\ running
    /\ loop.reminder = 0
    /\ now < EndTime
    /\ loop' = [loop EXCEPT !.reminder = 1, !.snapshot = tasks]
    /\ last_reminder_check' = now
    /\ UNCHANGED <<deployment, now, tasks, notes, reminders, nstatuses, ingest, last, nops,
                   mailbox, processed_db, processed_emails, queue, handled, marked, polls,
                   restarts, running>>

\* check_and_send_reminders from the Notifier call on: for every row read
\* that passed the tests the email is sent and, when the Notifier reports
\* success, update({'reminder_sent_at': now}).eq('id', task['id']); then the
\* loop sleeps
SaasReminderStamp ==
    /\ deployment = "saas"
    /\ loop.reminder = 1
    /\ \E notifierOk \in [TaskIds -> BOOLEAN] :
        LET sent  == check_and_send_reminders(loop.snapshot, last_reminder_check, notifierOk)
            stale == {i \in sent : \/ tasks[i].due_date # loop.snapshot[i].due_date
                                   \/ tasks[i].due_time # loop.snapshot[i].due_time}
        IN  /\ tasks' = [i \in TaskIds |->
                            IF i \in sent
                            THEN [tasks[i] EXCEPT !.reminder_sent_at = last_reminder_check]
                            ELSE tasks[i]]
            /\ reminders' = [i \in TaskIds |->
                                IF i \in sent THEN Reminded(reminders[i], last_reminder_check)
                                ELSE reminders[i]]
            /\ last' = [LastOp("check_and_send_reminders", 0, 0, 0) EXCEPT
                            !.sent = sent, !.pending = stale]
    /\ loop' = [loop EXCEPT !.reminder = 0, !.snapshot = <<>>]
    /\ now' = now + SleepSecs
    /\ UNCHANGED <<deployment, notes, last_reminder_check, nstatuses, ingest, nops,
                   mailbox, processed_db, processed_emails, queue, handled, marked, polls,
                   restarts, running>>

InitRace ==
    /\ deployment = "saas"
    /\ now \in StartTimes
    /\ tasks \in [StoredIds -> {NewTask(d, t) : d \in {0, 1}, t \in DueTimes}]
    /\ notes = <<>>
    /\ last_reminder_check = NoTime
    /\ reminders = [i \in StoredIds |-> NotReminded]
    /\ NoLedger
    /\ nstatuses = 1
    /\ ingest = NoIngest
    /\ last = NoOp
    /\ nops = 0
    /\ running = TRUE
    /\ loop = Idle

NextRace ==
    \/ SaasReminderSelect
    \/ SaasReminderStamp
    \/ DashHandleRescheduleSubmit
    \/ DashDelay1Hour

SpecRace == InitRace /\ [][NextRace]_vars

\* C27: a reminder pass that read a task before a reschedule or delay wrote
\* a new due time does not leave reminder_sent_at stamped on it: after
\* both have finished the task is still unreminded for its new due time.
C27_StalePassDoesNotStamp ==
    last.op = "check_and_send_reminders" =>
        \A i \in last.pending : tasks[i].reminder_sent_at = NoTime


\* ------------------------------------------------------------------
\* Specification of the completion life cycle: complete, reopen and free
\* status updates interleaved with the handlers that move a task
\* ------------------------------------------------------------------
MaxNotes == 2

\* the values the status field of POST /api/tasks/<id>/status takes
StatusNames == {"pending", "completed", "in_progress"}

\* update(...).eq('id', task_id).execute() of a row whose due_date/due_time
\* is not in the update
UpdateRow(id, row, op) ==
    /\ tasks' = [tasks EXCEPT ![id] = row]
    /\ last' = [LastOp(op, id, 0, 0) EXCEPT !.wrote = TRUE]
    /\ UNCHANGED <<deployment, now, last_reminder_check, reminders, nstatuses, ingest, nops>>
    /\ UNCHANGED ledgerVars

\* TaskManager.complete_task: status and completed_at in one update, then a
\* system note
TMCompleteTask ==
    /\ deployment = "cloud"
    /\ Len(notes) < MaxNotes
    /\ \E id \in TaskIds :
        /\ UpdateRow(id, [tasks[id] EXCEPT !.status = "completed", !.completed_at = now],
                     "complete_task")
        /\ notes' = Append(notes, SystemNote(id))

\* dashboard.complete_task_action
DashCompleteTaskAction ==
    /\ deployment = "saas"
    /\ \E id \in TaskIds :
        /\ UpdateRow(id, [tasks[id] EXCEPT !.status = "completed", !.completed_at = now],
                     "complete_task_action")
        /\ UNCHANGED notes

\* dashboard.reopen_task
DashReopenTask ==
    /\ deployment = "saas"
    /\ \E id \in TaskIds :
        /\ UpdateRow(id, [tasks[id] EXCEPT !.status = "pending", !.completed_at = NoTime],
                     "reopen_task")
        /\ UNCHANGED notes

\* dashboard.api_update_task_status: completed_at is in the update only when
\* the new status is 'completed'
DashApiUpdateTaskStatus ==
    /\ deployment = "saas"
    /\ \E id \in TaskIds, new_status \in StatusNames :
        /\ UpdateRow(id, IF new_status = "completed"
                         THEN [tasks[id] EXCEPT !.status = new_status, !.completed_at = now]
                         ELSE [tasks[id] EXCEPT !.status = new_status],
                     "api_update_task_status")
        /\ UNCHANGED notes

InitLife ==
    /\ deployment \in {"cloud", "saas"}
    /\ now \in DelayClocks
    /\ tasks \in [StoredIds -> {NewTask(d, t) : d \in DelayDates, t \in DelayTimes}]
    /\ notes = <<>>
    /\ last_reminder_check = NoTime
    /\ reminders = [i \in StoredIds |-> NotReminded]
    /\ NoLedger
    /\ nstatuses = 1
    /\ ingest = NoIngest
    /\ last = NoOp
    /\ nops = 0
    /\ running = TRUE
    /\ loop = Idle

NextLife ==
    \/ TMCompleteTask
    \/ DashCompleteTaskAction
    \/ DashReopenTask
    \/ DashApiUpdateTaskStatus
    \/ TMDelayTask
    \/ AppHandleDelay
    \/ AppHandleCustomDelaySubmit
    \/ DashDelayTaskCustom
    \/ DashHandleRescheduleSubmit
    \/ DashApiDelayTask

SpecLife == InitLife /\ [][NextLife]_vars

\* C28: in every reachable state a task has status 'completed' exactly
\* when its completed_at is set.
C28_CompletedIffCompletedAt ==
    \A i \in TaskIds : (tasks[i].status = "completed") <=> (tasks[i].completed_at # NoTime)


\* the send window of a stored task with the bounds the documentation
\* gives: it opens 20 minutes before the due instant and closes 5 minutes
\* after it
WindowOpens(t) == DueInstant(t) - WindowEarlySecs
WindowCloses(t) == DueInstant(t) + WindowLateSecs

\* C29: with a scheduler loop that keeps running and a Notifier that never
\* refuses an email, a task with a project status that exists before its
\* send window opens, stays pending and is not moved has received a
\* reminder by the time its send window has closed.
C29_NoDueReminderMissed ==
    \A i \in TaskIds :
        (/\ nops = 0
         /\ last.failures = 0
         /\ tasks[i].status = "pending"
         /\ tasks[i].project_status_id # 0
         /\ \A s \in StartTimes : s < WindowOpens(tasks[i])
         /\ now > WindowCloses(tasks[i]))
        => reminders[i].n >= 1


\* C30: when the oracle extracts a due_date and no due_time, the task that
\* process_single_email creates has the oracle's due_date and the time
\* 09:00.
C30_OracleDueDateKept ==
    (/\ ingest.op = "batch"
     /\ ingest.subject[1] = "created"
     /\ ingest.ex.due_date # NoTime
     /\ ingest.ex.due_time = NoDueTime)
    => LET t == tasks[Len(ingest.pre_tasks) + 1]
       IN  /\ t.due_date = ingest.ex.due_date
           /\ t.due_time = <<9, 0, 0>>

====
